---- MODULE Spec2Model ----
(***************************************************************************)
(* Model of Atenuacion.py: a linear script that splits three literal       *)
(* tables of (energy, attenuation) pairs, draws them on one semi-log       *)
(* chart, saves the chart as PNG and PDF and shows it.                     *)
(*                                                                         *)
(* Numbers are scaled to integers: energies in units of 1E-3 keV and       *)
(* attenuations in units of 1E-7 um^-1 (1.000E+00 keV is 1000 and          *)
(* 3.200E-01 is 3200000), font sizes in points and margins in hundredths   *)
(* of the figure size.  Non-ASCII letters of the label strings are         *)
(* transliterated.                                                         *)
(***************************************************************************)
EXTENDS Integers, Sequences, FiniteSets, TLC

(* Number of successive runs of the script that are explored. *)
MaxRuns == 2

(***************************************************************************)
(* The data literals (lines 4-45).                                         *)
(***************************************************************************)
material1Zero ==
    << <<1000, 3200000>>,
       <<1500, 1086000>>,
       <<1560, 977700>>,
       <<1500, 10680000>>,
       <<2000, 6110000>>,
       <<3000, 2128000>>,
       <<4000, 973400>>,
       <<5000, 522200>>,
       <<6000, 311300>>,
       <<8000, 135900>>,
       <<10000, 0>> >>

material1 ==
    << <<1000, 3200000>>,
       <<1500, 1086000>>,
       <<1560, 977700>>,
       <<1500, 10680000>>,
       <<2000, 6110000>>,
       <<3000, 2128000>>,
       <<4000, 973400>>,
       <<5000, 522200>>,
       <<6000, 311300>>,
       <<8000, 135900>>,
       <<10000, 7077>> >>

material2 ==
    << <<1000, 90900000>>,
       <<1047, 80260000>>,
       <<1096, 70910000>>,
       <<1096, 80370000>>,
       <<1500, 37990000>>,
       <<2000, 18520000>>,
       <<3000, 6440000>>,
       <<4000, 2987000>>,
       <<5000, 1633000>>,
       <<6000, 994200>>,
       <<8000, 451900>>,
       <<8979, 329300>>,
       <<8979, 2393000>>,
       <<10000, 1858000>> >>

material3 ==
    << <<1000, 4017000>>,
       <<1050, 1316000>>,
       <<2000, 580400>>,
       <<3000, 177700>>,
       <<4000, 75420>>,
       <<5000, 38530>>,
       <<6000, 22190>>,
       <<8000, 9315>>,
       <<10000, 4805>> >>

(***************************************************************************)
(* zip over the unpacked pair list: the k-th result holds the k-th         *)
(* component of every pair, in list order; there are as many results as    *)
(* the shortest pair has components.                                       *)
(***************************************************************************)
MinWidth(pairs) ==
    IF pairs = << >> THEN 0
    ELSE CHOOSE w \in {Len(pairs[i]) : i \in DOMAIN pairs} :
             \A i \in DOMAIN pairs : w <= Len(pairs[i])

ZipStarDropLast(pairs) ==
    [k \in 1..MinWidth(pairs) |-> [i \in 1..(Len(pairs) - 1) |-> pairs[i][k]]]

ZipStar(pairs) ==
    [k \in 1..MinWidth(pairs) |-> [i \in 1..Len(pairs) |-> pairs[i][k]]]

(***************************************************************************)
(* The statements of the module body, in source order (lines 48-74).       *)
(***************************************************************************)
ProgramSaveEarly ==
    << "zip1", "zip2", "zip3",
       "semilogy1", "semilogy2", "semilogy3",
       "xlabel", "ylabel",
       "savefig_png", "legend",
       "xticks", "yticks", "subplots_adjust",
       "savefig_pdf", "show" >>

Program ==
    << "zip1", "zip2", "zip3",
       "semilogy1", "semilogy2", "semilogy3",
       "xlabel", "ylabel", "legend",
       "xticks", "yticks", "subplots_adjust",
       "savefig_png", "savefig_pdf", "show" >>

IndexOf(stmt) == CHOOSE i \in DOMAIN Program : Program[i] = stmt

(* The statement control reaches when stmt completes. *)
After(stmt) ==
    IF IndexOf(stmt) = Len(Program) THEN "done" ELSE Program[IndexOf(stmt) + 1]

(* The statements that call the charting library (lines 53-74). *)
LibraryCalls == {Program[i] : i \in 4..Len(Program)}

PngName == "atenuacion_materiales.png"
PdfName == "atenuacion_materiales.pdf"
OtherName == "notas.txt"
FileNames == {PngName, PdfName, OtherName}

(* Contents a file of the working directory may hold before the first run: *)
(* an empty file or an unrelated older file.                               *)
PriorContents == { << >>, <<"old">> }

(* The state of a fresh pyplot figure, before any plotting call. *)
EmptyFigure ==
    [ curves  |-> << >>,
      yscale  |-> "linear",
      xlabel  |-> << >>,
      ylabel  |-> << >>,
      legend  |-> << >>,
      xticks  |-> << >>,
      yticks  |-> << >>,
      margins |-> << >> ]

(* What the export routine encodes: the format and the figure drawn. *)
Render(format, figure) == << format, figure >>

FormatOf(fname) == IF fname = PngName THEN "png" ELSE "pdf"

Write(files, fname, content) ==
    [n \in (DOMAIN files) \cup {fname} |-> IF n = fname THEN content ELSE files[n]]

savefigAppend(files, figure, fname) ==
    Write(files, fname,
          (IF fname \in DOMAIN files THEN files[fname] ELSE << >>)
              \o Render(FormatOf(fname), figure))

savefigEmpty(files, figure, fname) ==
    Write(files, fname, << >>)

(* plt.savefig(fname): creates or overwrites fname with the rendering. *)
savefig(files, figure, fname) ==
    Write(files, fname, Render(FormatOf(fname), figure))

VARIABLES
    pc,             \* the statement about to execute, or "done" / "failed"
    run,            \* ordinal of the current run of the script
    writable,       \* the working directory accepts writes during this run
    backend,        \* "gui", "headless" or "broken" during this run
    fs,             \* working directory: file name -> contents
    fig,            \* the current pyplot figure
    energias1, atenuaciones1,
    energias2, atenuaciones2,
    energias3, atenuaciones3,
    window,         \* a viewer window is open and plt.show() is blocked on it
    shown,          \* the figure has been displayed in this run
    trace,          \* statements completed in this run, in execution order
    saves,          \* savefig calls completed in this run: name and figure
    failedAt,       \* the statement that raised, or "none"
    fsAtStart,      \* the working directory when this run started
    prevOK          \* the previous run ended normally

vars == << pc, run, writable, backend, fs, fig,
           energias1, atenuaciones1, energias2, atenuaciones2,
           energias3, atenuaciones3,
           window, shown, trace, saves, failedAt, fsAtStart, prevOK >>

data == << energias1, atenuaciones1, energias2, atenuaciones2,
           energias3, atenuaciones3 >>

env == << run, writable, backend, fsAtStart, prevOK >>

Backends == {"gui", "headless", "broken"}

(* A fresh interpreter process: no names bound, an empty figure. *)
FreshProcess ==
    /\ pc' = Program[1]
    /\ fig' = EmptyFigure
    /\ energias1' = << >> /\ atenuaciones1' = << >>
    /\ energias2' = << >> /\ atenuaciones2' = << >>
    /\ energias3' = << >> /\ atenuaciones3' = << >>
    /\ window' = FALSE
    /\ shown' = FALSE
    /\ trace' = << >>
    /\ saves' = << >>
    /\ failedAt' = "none"

Init ==
    /\ pc = Program[1]
    /\ run = 1
    /\ writable \in BOOLEAN
    /\ backend \in Backends
    /\ \E S \in SUBSET FileNames : fs \in [S -> PriorContents]
    /\ fig = EmptyFigure
    /\ energias1 = << >> /\ atenuaciones1 = << >>
    /\ energias2 = << >> /\ atenuaciones2 = << >>
    /\ energias3 = << >> /\ atenuaciones3 = << >>
    /\ window = FALSE
    /\ shown = FALSE
    /\ trace = << >>
    /\ saves = << >>
    /\ failedAt = "none"
    /\ fsAtStart = fs
    /\ prevOK = FALSE

(* Control passes from stmt to the next statement. *)
Advance(stmt) ==
    /\ pc = stmt
    /\ pc' = After(stmt)
    /\ trace' = Append(trace, stmt)

\* line 48: energias1, atenuaciones1 = zip of the unpacked material1
Zip1 ==
    /\ Advance("zip1")
    /\ Len(ZipStar(material1)) = 2
    /\ energias1' = ZipStar(material1)[1]
    /\ atenuaciones1' = ZipStar(material1)[2]
    /\ UNCHANGED << env, fs, fig, energias2, atenuaciones2,
                    energias3, atenuaciones3, window, shown, saves, failedAt >>

\* line 49: energias2, atenuaciones2 = zip of the unpacked material2
Zip2 ==
    /\ Advance("zip2")
    /\ Len(ZipStar(material2)) = 2
    /\ energias2' = ZipStar(material2)[1]
    /\ atenuaciones2' = ZipStar(material2)[2]
    /\ UNCHANGED << env, fs, fig, energias1, atenuaciones1,
                    energias3, atenuaciones3, window, shown, saves, failedAt >>

\* line 50: energias3, atenuaciones3 = zip of the unpacked material3
Zip3 ==
    /\ Advance("zip3")
    /\ Len(ZipStar(material3)) = 2
    /\ energias3' = ZipStar(material3)[1]
    /\ atenuaciones3' = ZipStar(material3)[2]
    /\ UNCHANGED << env, fs, fig, energias1, atenuaciones1,
                    energias2, atenuaciones2, window, shown, saves, failedAt >>

\* The arguments of the three plotting calls (lines 53-55).
SemilogyArgs(stmt) ==
    CASE stmt = "semilogy1" -> << energias1, atenuaciones1 >>
      [] stmt = "semilogy2" -> << energias2, atenuaciones2 >>
      [] stmt = "semilogy3" -> << energias3, atenuaciones3 >>

\* plt.semilogy(x, y, label, color): one more curve, logarithmic y axis.
semilogy(figure, x, y, label, color) ==
    [figure EXCEPT
        !.curves = Append(@, [x |-> x, y |-> y, label |-> label, color |-> color]),
        !.yscale = "log"]

\* The library rejects x and y of different lengths.
BadData(stmt) ==
    /\ stmt \in {"semilogy1", "semilogy2", "semilogy3"}
    /\ Len(SemilogyArgs(stmt)[1]) # Len(SemilogyArgs(stmt)[2])

\* line 53
Semilogy1 ==
    /\ Advance("semilogy1")
    /\ ~BadData("semilogy1")
    /\ fig' = semilogy(fig, energias1, atenuaciones1, "Aluminio", "red")
    /\ UNCHANGED << env, fs, data, window, shown, saves, failedAt >>

Semilogy2WrongLabel ==
    /\ Advance("semilogy2")
    /\ ~BadData("semilogy2")
    /\ fig' = semilogy(fig, energias2, atenuaciones2, "Aluminio", "blue")
    /\ UNCHANGED << env, fs, data, window, shown, saves, failedAt >>

\* line 54
Semilogy2 ==
    /\ Advance("semilogy2")
    /\ ~BadData("semilogy2")
    /\ fig' = semilogy(fig, energias2, atenuaciones2, "Cobre", "blue")
    /\ UNCHANGED << env, fs, data, window, shown, saves, failedAt >>

\* line 55
Semilogy3 ==
    /\ Advance("semilogy3")
    /\ ~BadData("semilogy3")
    /\ fig' = semilogy(fig, energias3, atenuaciones3, "Mylar", "green")
    /\ UNCHANGED << env, fs, data, window, shown, saves, failedAt >>

\* line 58
Xlabel ==
    /\ Advance("xlabel")
    /\ fig' = [fig EXCEPT !.xlabel = << "Energia (keV)", 14 >>]
    /\ UNCHANGED << env, fs, data, window, shown, saves, failedAt >>

\* line 59
Ylabel ==
    /\ Advance("ylabel")
    /\ fig' = [fig EXCEPT !.ylabel = << "Atenuacion (um$^{-1}$)", 14 >>]
    /\ UNCHANGED << env, fs, data, window, shown, saves, failedAt >>

\* line 60: the legend lists the labels of the curves drawn so far.
Legend ==
    /\ Advance("legend")
    /\ fig' = [fig EXCEPT
                 !.legend = << 12, [i \in DOMAIN fig.curves |-> fig.curves[i].label] >>]
    /\ UNCHANGED << env, fs, data, window, shown, saves, failedAt >>

\* line 63
Xticks ==
    /\ Advance("xticks")
    /\ fig' = [fig EXCEPT !.xticks = << 13 >>]
    /\ UNCHANGED << env, fs, data, window, shown, saves, failedAt >>

\* line 64
Yticks ==
    /\ Advance("yticks")
    /\ fig' = [fig EXCEPT !.yticks = << 13 >>]
    /\ UNCHANGED << env, fs, data, window, shown, saves, failedAt >>

\* line 67: left=0.15, bottom=0.15
SubplotsAdjust ==
    /\ Advance("subplots_adjust")
    /\ fig' = [fig EXCEPT !.margins = << 15, 15 >>]
    /\ UNCHANGED << env, fs, data, window, shown, saves, failedAt >>

SavefigPngBadPath ==
    /\ pc = "savefig_png"
    /\ failedAt' = pc
    /\ pc' = "failed"
    /\ UNCHANGED << trace, env, fs, fig, data, window, shown, saves >>

SavefigPngThenClear ==
    /\ Advance("savefig_png")
    /\ writable
    /\ fs' = savefig(fs, fig, PngName)
    /\ saves' = Append(saves, [name |-> PngName, fig |-> fig])
    /\ fig' = EmptyFigure
    /\ UNCHANGED << env, data, window, shown, failedAt >>

\* line 70
SavefigPng ==
    /\ Advance("savefig_png")
    /\ writable
    /\ fs' = savefig(fs, fig, PngName)
    /\ saves' = Append(saves, [name |-> PngName, fig |-> fig])
    /\ UNCHANGED << env, fig, data, window, shown, failedAt >>

\* line 71
SavefigPdf ==
    /\ Advance("savefig_pdf")
    /\ writable
    /\ fs' = savefig(fs, fig, PdfName)
    /\ saves' = Append(saves, [name |-> PdfName, fig |-> fig])
    /\ UNCHANGED << env, fig, data, window, shown, failedAt >>

\* line 74 with an interactive backend: the viewer window opens and the
\* call blocks until the window is closed.
ShowWindow ==
    /\ pc = "show"
    /\ backend = "gui"
    /\ ~window
    /\ window' = TRUE
    /\ shown' = TRUE
    /\ UNCHANGED << pc, trace, env, fs, fig, data, saves, failedAt >>

\* The user closes the viewer window and plt.show() returns.
CloseWindow ==
    /\ Advance("show")
    /\ window
    /\ window' = FALSE
    /\ UNCHANGED << env, fs, fig, data, shown, saves, failedAt >>

\* line 74 without an interactive backend: the call returns at once.
ShowNoop ==
    /\ Advance("show")
    /\ backend # "gui"
    /\ UNCHANGED << env, fs, fig, data, window, shown, saves, failedAt >>

\* The library call about to execute may raise.
MayFail(stmt) ==
    /\ stmt \in LibraryCalls
    /\ \/ backend = "broken"
       \/ stmt \in {"savefig_png", "savefig_pdf"} /\ ~writable
       \/ BadData(stmt)

RaiseSwallowed ==
    /\ MayFail(pc)
    /\ ~window
    /\ failedAt' = pc
    /\ pc' = After(pc)
    /\ UNCHANGED << trace, env, fs, fig, data, window, shown, saves >>

\* An exception of a library call is caught nowhere: the run ends there.
Raise ==
    /\ MayFail(pc)
    /\ ~window
    /\ failedAt' = pc
    /\ pc' = "failed"
    /\ UNCHANGED << trace, env, fs, fig, data, window, shown, saves >>

\* The script is run again, in a new process, in the same directory.
StartRun ==
    /\ pc \in {"done", "failed"}
    /\ run < MaxRuns
    /\ run' = run + 1
    /\ writable' \in BOOLEAN
    /\ backend' \in Backends
    /\ fsAtStart' = fs
    /\ prevOK' = (pc = "done")
    /\ FreshProcess
    /\ UNCHANGED fs

\* One statement of the script runs to completion.
Step ==
    \/ Zip1 \/ Zip2 \/ Zip3
    \/ Semilogy1 \/ Semilogy2 \/ Semilogy3
    \/ Xlabel \/ Ylabel \/ Legend
    \/ Xticks \/ Yticks \/ SubplotsAdjust
    \/ SavefigPng \/ SavefigPdf
    \/ ShowWindow \/ ShowNoop

Next == Step \/ CloseWindow \/ Raise \/ StartRun

Spec == Init /\ [][Next]_vars

\* The interpreter keeps executing statements, and an open viewer window is
\* eventually closed.
FairSpec == Spec /\ WF_vars(Step) /\ WF_vars(CloseWindow)

(***************************************************************************)
(* Properties.                                                             *)
(***************************************************************************)
Range(s) == {s[i] : i \in DOMAIN s}

IsPrefix(s, t) == Len(s) <= Len(t) /\ \A i \in DOMAIN s : s[i] = t[i]

Column(pairs, k) == [i \in 1..Len(pairs) |-> pairs[i][k]]

SavedNames == [i \in DOMAIN saves |-> saves[i].name]

Aligned(pairs, e, a) ==
    /\ Len(e) = Len(pairs)
    /\ Len(a) = Len(pairs)
    /\ \A i \in 1..Len(pairs) : e[i] = pairs[i][1] /\ a[i] = pairs[i][2]

\* C1: once a pair list has been split, its energy and attenuation
\* sequences have the length of the list (11, 14 and 9), and the i-th energy
\* and i-th attenuation are the two components of the i-th pair; the first
\* energy of material1 is 1.000 and its first attenuation 0.320.
C1_SplitAligned ==
    /\ "zip1" \in Range(trace) =>
          /\ Aligned(material1, energias1, atenuaciones1)
          /\ Len(energias1) = 11 /\ Len(atenuaciones1) = 11
          /\ energias1[1] = 1000 /\ atenuaciones1[1] = 3200000
    /\ "zip2" \in Range(trace) =>
          /\ Aligned(material2, energias2, atenuaciones2)
          /\ Len(energias2) = 14 /\ Len(atenuaciones2) = 14
    /\ "zip3" \in Range(trace) =>
          /\ Aligned(material3, energias3, atenuaciones3)
          /\ Len(energias3) = 9 /\ Len(atenuaciones3) = 9

C1_Witness ==
    /\ {"zip1", "zip2", "zip3"} \subseteq Range(trace)
    /\ pc = "semilogy1"

\* C2: every attenuation of the three tables, and every y value handed to
\* a logarithmic plotting call, is strictly positive.
C2_AttenuationsPositive ==
    /\ \A m \in {material1, material2, material3} :
          \A i \in DOMAIN m : m[i][2] > 0
    /\ \A k \in DOMAIN fig.curves :
          \A i \in DOMAIN fig.curves[k].y : fig.curves[k].y[i] > 0

C2_Witness ==
    /\ Len(fig.curves) = 3
    /\ fig.yscale = "log"

\* C3: the program writes no file name other than the PNG and the PDF name,
\* files of other names stay as they were, and a run that ends normally has
\* written exactly those two files, each non-empty.
C3_ExactlyTwoFiles ==
    /\ Range(SavedNames) \subseteq {PngName, PdfName}
    /\ \A n \in FileNames \ {PngName, PdfName} :
          /\ n \in DOMAIN fs <=> n \in DOMAIN fsAtStart
          /\ n \in DOMAIN fs => fs[n] = fsAtStart[n]
    /\ DOMAIN fs \subseteq DOMAIN fsAtStart \cup {PngName, PdfName}
    /\ pc = "done" =>
          /\ Len(SavedNames) = 2
          /\ Range(SavedNames) = {PngName, PdfName}
          /\ \A n \in {PngName, PdfName} : n \in DOMAIN fs /\ Len(fs[n]) > 0

C3_Witness ==
    /\ pc = "done"
    /\ OtherName \in DOMAIN fsAtStart
    /\ PngName \in DOMAIN fsAtStart /\ fsAtStart[PngName] = << >>
    /\ PdfName \notin DOMAIN fsAtStart

C5_SameFigureInBothFiles ==
    /\ Len(saves) >= 1 => fig = saves[Len(saves)].fig
    /\ Len(saves) = 2 =>
          /\ saves[1].fig = saves[2].fig
          /\ fs[PngName] = Render("png", saves[1].fig)
          /\ fs[PdfName] = Render("pdf", saves[1].fig)
          /\ fs[PngName][2] = fs[PdfName][2]

C5_Witness ==
    /\ Len(saves) = 2
    /\ pc = "show"

\* C6: a statement that fails ends the run: exactly the statements before it
\* have executed, none executes afterwards, and nothing retries.  If the PNG
\* save fails, nothing is written and the figure is not shown; if the PDF
\* save fails, the PNG written before it remains, the PDF is not written and
\* the figure is not shown.
C6_FailureEndsRun ==
    failedAt # "none" =>
        /\ pc = "failed"
        /\ trace = SubSeq(Program, 1, IndexOf(failedAt) - 1)
        /\ ~ENABLED (Step \/ CloseWindow \/ Raise)
        /\ failedAt = "savefig_png" =>
              /\ saves = << >>
              /\ ~shown
              /\ fs = fsAtStart
        /\ failedAt = "savefig_pdf" =>
              /\ SavedNames = << PngName >>
              /\ ~shown
              /\ PngName \in DOMAIN fs
              /\ fs[PngName] = Render("png", saves[1].fig)
              /\ PdfName \in DOMAIN fs <=> PdfName \in DOMAIN fsAtStart
              /\ PdfName \in DOMAIN fs => fs[PdfName] = fsAtStart[PdfName]

C6_Witness ==
    /\ failedAt = "savefig_pdf"
    /\ pc = "failed"
    /\ PngName \in DOMAIN fs
    /\ PngName \notin DOMAIN fsAtStart

EnvOK == writable /\ backend # "broken"

RunComplete ==
    /\ pc = "done"
    /\ failedAt = "none"
    /\ trace = Program
    /\ SavedNames = << PngName, PdfName >>

ClaimedOrder ==
    << "zip1", "zip2", "zip3",
       "semilogy1", "semilogy2", "semilogy3",
       "xlabel", "ylabel", "legend",
       "xticks", "yticks", "subplots_adjust",
       "savefig_png", "savefig_pdf", "show" >>

FigureComplete(f) ==
    /\ Len(f.curves) = 3
    /\ f.xlabel # << >>
    /\ f.ylabel # << >>
    /\ f.legend # << >> /\ Len(f.legend[2]) = 3
    /\ f.xticks # << >>
    /\ f.yticks # << >>
    /\ f.margins # << >>

\* C8: the statements execute once each, in the order split, three curves,
\* x label, y label, legend, tick sizes, margins, PNG, PDF, show; the figure
\* carries all curves and labelling at each save, the PNG is written before
\* the PDF, and the figure is shown only after both saves.
C8_LinearOrder ==
    /\ IsPrefix(trace, ClaimedOrder)
    /\ pc = "done" => trace = ClaimedOrder
    /\ pc \notin {"done", "failed"} => pc = ClaimedOrder[Len(trace) + 1]
    /\ \A i \in DOMAIN saves : FigureComplete(saves[i].fig)
    /\ IsPrefix(SavedNames, << PngName, PdfName >>)
    /\ shown => Len(saves) = 2

C8_Witness ==
    /\ pc = "done"
    /\ shown
    /\ Len(trace) = 15

ExpectedCurves ==
    << [x |-> Column(material1, 1), y |-> Column(material1, 2),
        label |-> "Aluminio", color |-> "red"],
       [x |-> Column(material2, 1), y |-> Column(material2, 2),
        label |-> "Cobre", color |-> "blue"],
       [x |-> Column(material3, 1), y |-> Column(material3, 2),
        label |-> "Mylar", color |-> "green"] >>

C10_EnergiesNonDecreasing ==
    \A k \in DOMAIN fig.curves :
        \A i \in 1..(Len(fig.curves[k].x) - 1) :
            fig.curves[k].x[i] <= fig.curves[k].x[i + 1]
====
